---- MODULE Spec2Model ----
(***************************************************************************)
(* Model of etc/clang_format.py: the bounded-parallel work scheduler       *)
(* (parallel_process), the globstar path matcher (iglob and helpers) and   *)
(* the candidate filter (Repo.get_candidates).                             *)
(*                                                                         *)
(* Strings are sequences of one-character strings, so that splitting,      *)
(* joining and normalising paths are computed as the code computes them.   *)
(***************************************************************************)
EXTENDS Integers, Sequences, FiniteSets, TLC

VARIABLES
    \* ---- parallel_process ----
    items,        \* the items argument: per item, what func does on it
    cpus,         \* cpu_count(), the pool size
    task_queue,   \* Queue.Queue contents (item indices, FIFO)
    unfinished,   \* Queue.unfinished_tasks (put increments, task_done decrements)
    pp_event,     \* threading.Event flag
    pp_result,    \* pp_result[0]
    pp_lock,      \* holder of pp_lock, 0 when free
    threads,      \* number of worker threads started so far
    wpc,          \* worker thread -> position in worker()
    witem,        \* worker thread -> item held (0 when none)
    wret,         \* worker thread -> ret of the last func call
    mpc,          \* position of the calling thread in parallel_process
    nput,         \* items enqueued so far
    njoined,      \* threads joined so far
    retval,       \* value returned by parallel_process ("none" before return)
    calls,        \* item index -> number of func invocations started on it
    rets,         \* item index -> sequence of outcomes of completed invocations
    \* ---- iglob ----
    tree,         \* which filesystem tree the generator runs on
    pattern,      \* the globbed_pathname argument of iglob
    gpc,          \* generator: "created", "running", "raised", "done"
    pending,      \* the steps the generator has still to perform, in order
    fsops,        \* filesystem accesses performed so far
    yielded,      \* the paths yielded so far, in order
    \* ---- Repo ----
    ls_files,     \* lines printed by "git ls-files" for the repository
    candidates,   \* the argument of get_candidates: <<"None">> or <<"list", l>>
    rpc,          \* "new", "constructed", "returned"
    root,         \* Repo.root
    candidate_files,  \* Repo.candidate_files
    valid_files   \* the list get_candidates returned

ppvars == <<items, cpus, task_queue, unfinished, pp_event, pp_result, pp_lock,
            threads, wpc, witem, wret, mpc, nput, njoined, retval, calls, rets>>

gvars == <<tree, pattern, gpc, pending, fsops, yielded>>

rvars == <<ls_files, candidates, rpc, root, candidate_files, valid_files>>

vars == <<ppvars, gvars, rvars>>

----------------------------------------------------------------------------
(* Bounds *)
MaxItems == 3
MaxCpus == 2
MaxSegs == 3
MaxTracked == 2
MaxCands == 2

----------------------------------------------------------------------------
(* The three components do not share state; each specification below runs
   one of them and holds the other two idle. *)

\* The parallel_process variables while no call is in progress.
PPIdle ==
    /\ items = <<>> /\ cpus = 1 /\ task_queue = <<>> /\ unfinished = 0
    /\ pp_event = FALSE /\ pp_result = TRUE /\ pp_lock = 0 /\ threads = 0
    /\ wpc = <<"unstarted">> /\ witem = <<0>> /\ wret = <<"none">>
    /\ mpc = "idle" /\ nput = 0 /\ njoined = 0 /\ retval = "none"
    /\ calls = <<>> /\ rets = <<>>

\* The matcher variables while no generator is in use.
GlobIdle ==
    /\ tree = "plain" /\ pattern = <<>> /\ gpc = "done" /\ pending = <<>>
    /\ fsops = <<>> /\ yielded = <<>>

\* The Repo variables while no repository is in use.
RepoIdle ==
    /\ ls_files = <<>> /\ candidates = <<"None", <<>>>> /\ rpc = "idle"
    /\ root = <<>> /\ candidate_files = <<>> /\ valid_files = <<>>

----------------------------------------------------------------------------
(* Strings and os.path (posixpath) *)

SEP == "/"

RECURSIVE Reverse(_)
Reverse(s) == IF s = <<>> THEN <<>> ELSE Append(Reverse(Tail(s)), Head(s))

\* sub in s
Contains(s, sub) ==
    \E i \in 0..(Len(s) - Len(sub)) : SubSeq(s, i + 1, i + Len(sub)) = sub

\* s.rfind('/') + 1
RFindSep(s) ==
    IF \E i \in 1..Len(s) : s[i] = SEP
    THEN CHOOSE i \in 1..Len(s) :
            s[i] = SEP /\ \A j \in (i + 1)..Len(s) : s[j] # SEP
    ELSE 0

\* s.rstrip('/')
RStripSep(s) ==
    IF \E i \in 1..Len(s) : s[i] # SEP
    THEN SubSeq(s, 1, CHOOSE i \in 1..Len(s) :
                        s[i] # SEP /\ \A j \in (i + 1)..Len(s) : s[j] = SEP)
    ELSE <<>>

\* os.path.split: <<head, tail>>
PathSplit(p) ==
    LET i == RFindSep(p)
        head == SubSeq(p, 1, i)
        tail == SubSeq(p, i + 1, Len(p))
    IN  <<IF head # <<>> /\ RStripSep(head) # <<>> THEN RStripSep(head) ELSE head,
          tail>>

\* os.path.basename
Basename(p) == SubSeq(p, RFindSep(p) + 1, Len(p))

\* os.path.join(a, b)
Join2(a, b) ==
    IF b # <<>> /\ b[1] = SEP THEN b
    ELSE IF a = <<>> \/ a[Len(a)] = SEP THEN a \o b
    ELSE a \o <<SEP>> \o b

\* os.path.join(*parts)
RECURSIVE JoinAll(_)
JoinAll(parts) ==
    IF Len(parts) = 1 THEN parts[1]
    ELSE Join2(JoinAll(SubSeq(parts, 1, Len(parts) - 1)), parts[Len(parts)])

\* path.split('/')
RECURSIVE SplitSep(_)
SplitSep(s) ==
    IF \A i \in 1..Len(s) : s[i] # SEP THEN <<s>>
    ELSE LET i == CHOOSE k \in 1..Len(s) :
                    s[k] = SEP /\ \A j \in 1..(k - 1) : s[j] # SEP
         IN  <<SubSeq(s, 1, i - 1)>> \o SplitSep(SubSeq(s, i + 1, Len(s)))

\* '/'.join(comps)
RECURSIVE JoinSep(_)
JoinSep(comps) ==
    IF comps = <<>> THEN <<>>
    ELSE IF Len(comps) = 1 THEN comps[1]
    ELSE comps[1] \o <<SEP>> \o JoinSep(Tail(comps))

DOT == <<".">>
DOTDOT == <<".", ".">>

\* the loop of os.path.normpath over the components
RECURSIVE NormComps(_, _, _)
NormComps(comps, new_comps, initial_slashes) ==
    IF comps = <<>> THEN new_comps
    ELSE LET comp == Head(comps)
             n == Len(new_comps)
         IN  IF comp = <<>> \/ comp = DOT
             THEN NormComps(Tail(comps), new_comps, initial_slashes)
             ELSE IF \/ comp # DOTDOT
                     \/ (initial_slashes = 0 /\ n = 0)
                     \/ (n > 0 /\ new_comps[n] = DOTDOT)
             THEN NormComps(Tail(comps), Append(new_comps, comp), initial_slashes)
             ELSE IF n > 0
             THEN NormComps(Tail(comps), SubSeq(new_comps, 1, n - 1), initial_slashes)
             ELSE NormComps(Tail(comps), new_comps, initial_slashes)

\* os.path.normpath
Normpath(path) ==
    IF path = <<>> THEN DOT
    ELSE LET starts(k) == Len(path) >= k /\ \A i \in 1..k : path[i] = SEP
             initial_slashes == IF ~starts(1) THEN 0
                                ELSE IF starts(2) /\ ~starts(3) THEN 2 ELSE 1
             body == JoinSep(NormComps(SplitSep(path), <<>>, initial_slashes))
             res == [i \in 1..initial_slashes |-> SEP] \o body
         IN  IF res = <<>> THEN DOT ELSE res

----------------------------------------------------------------------------
(* The filesystem seen by os.walk, os.path.islink and glob *)

\* Node names, in the order os.listdir reports them.
NameOrder == << <<"a">>, <<"b">>, <<"l">>, <<"x">>, <<"y">> >>

Dir == [kind |-> "dir", target |-> <<>>]
File == [kind |-> "file", target |-> <<>>]
Link(t) == [kind |-> "link", target |-> t]

\* A tree maps the canonical path of each node (its names from the root) to
\* the node.  The working directory is the root of the tree.
FSPlain ==
    (<<>> :> Dir)
    @@ (<< <<"a">> >> :> Dir)
    @@ (<< <<"a">>, <<"b">> >> :> File)
    @@ (<< <<"a">>, <<"x">> >> :> Dir)
    @@ (<< <<"a">>, <<"x">>, <<"b">> >> :> File)
    @@ (<< <<"a">>, <<"x">>, <<"y">> >> :> Dir)
    @@ (<< <<"a">>, <<"x">>, <<"y">>, <<"b">> >> :> File)
    @@ (<< <<"b">> >> :> File)

\* a/l is a symbolic link to its own parent directory a.
FSLoop ==
    (<<>> :> Dir)
    @@ (<< <<"a">> >> :> Dir)
    @@ (<< <<"a">>, <<"b">> >> :> File)
    @@ (<< <<"a">>, <<"l">> >> :> Link(<< <<"a">> >>))

FSNested ==
    (<<>> :> Dir)
    @@ (<< <<"a">> >> :> Dir)
    @@ (<< <<"a">>, <<"a">> >> :> Dir)
    @@ (<< <<"a">>, <<"a">>, <<"b">> >> :> File)
    @@ (<< <<"b">> >> :> Dir)
    @@ (<< <<"b">>, <<"a">> >> :> File)

Trees == [plain |-> FSPlain, loop |-> FSLoop, nested |-> FSNested]

\* Path resolution stops with ELOOP after this many symbolic links.
MaxSymlinks == 2

Failed(cur, n) == [ok |-> FALSE, at |-> cur, n |-> n]

\* Kernel path resolution from node cur over the remaining components;
\* n counts the symbolic links followed; follow: resolve a final link too.
RECURSIVE ResolveFrom(_, _, _, _, _)
ResolveFrom(nodes, cur, comps, n, follow) ==
    LET node == nodes[cur]
    IN  IF node.kind = "link" /\ (comps # <<>> \/ follow)
        THEN IF n + 1 > MaxSymlinks THEN Failed(cur, n)
             ELSE ResolveFrom(nodes, node.target, comps, n + 1, follow)
        ELSE IF comps = <<>> THEN [ok |-> TRUE, at |-> cur, n |-> n]
        ELSE IF node.kind # "dir" THEN Failed(cur, n)
        ELSE LET c == Head(comps)
             IN  IF c = <<>> \/ c = DOT
                 THEN ResolveFrom(nodes, cur, Tail(comps), n, follow)
                 ELSE IF c = DOTDOT
                 THEN ResolveFrom(nodes,
                                  IF cur = <<>> THEN cur
                                  ELSE SubSeq(cur, 1, Len(cur) - 1),
                                  Tail(comps), n, follow)
                 ELSE IF Append(cur, c) \notin DOMAIN nodes THEN Failed(cur, n)
                 ELSE ResolveFrom(nodes, Append(cur, c), Tail(comps), n, follow)

Resolve(nodes, p, follow) ==
    IF p = <<>> THEN Failed(<<>>, 0)
    ELSE ResolveFrom(nodes, <<>>, SplitSep(p), 0, follow)

\* os.path.lexists, os.path.isdir, os.path.islink
Lexists(nodes, p) == Resolve(nodes, p, FALSE).ok
IsDir(nodes, p) ==
    LET r == Resolve(nodes, p, TRUE) IN r.ok /\ nodes[r.at].kind = "dir"
IsLink(nodes, p) ==
    LET r == Resolve(nodes, p, FALSE) IN r.ok /\ nodes[r.at].kind = "link"

\* os.listdir: the names in directory p, or failure
ListDir(nodes, p) ==
    LET r == Resolve(nodes, p, TRUE)
    IN  IF r.ok /\ nodes[r.at].kind = "dir"
        THEN [ok |-> TRUE,
              names |-> SelectSeq(NameOrder,
                                  LAMBDA nm : Append(r.at, nm) \in DOMAIN nodes)]
        ELSE [ok |-> FALSE, names |-> <<>>]

----------------------------------------------------------------------------
(* glob.iglob of the standard library, called by iglob for patterns without
   a globstar *)

\* glob.has_magic, over an alphabet whose only wildcard is "*"
has_magic(s) == \E i \in 1..Len(s) : s[i] = "*"

\* fnmatch.fnmatch(name, pat)
RECURSIVE fnmatch(_, _)
fnmatch(name, pat) ==
    IF pat = <<>> THEN name = <<>>
    ELSE IF Head(pat) = "*"
    THEN fnmatch(name, Tail(pat)) \/ (name # <<>> /\ fnmatch(Tail(name), pat))
    ELSE name # <<>> /\ Head(name) = Head(pat) /\ fnmatch(Tail(name), Tail(pat))

\* glob.glob1(dirname, pattern)
glob1(nodes, dirname, pat) ==
    LET l == ListDir(nodes, IF dirname = <<>> THEN DOT ELSE dirname)
        visible == IF pat[1] # "." THEN SelectSeq(l.names, LAMBDA nm : nm[1] # ".")
                   ELSE l.names
    IN  IF ~l.ok THEN <<>>
        ELSE SelectSeq(visible, LAMBDA nm : fnmatch(nm, pat))

\* glob.glob0(dirname, basename)
glob0(nodes, dirname, basename) ==
    IF basename = <<>>
    THEN IF IsDir(nodes, dirname) THEN <<basename>> ELSE <<>>
    ELSE IF Lexists(nodes, Join2(dirname, basename)) THEN <<basename>> ELSE <<>>

\* for dirname in dirs: for name in glob_in_dir(dirname, basename):
\*     yield os.path.join(dirname, name)
RECURSIVE GlobInDirs(_, _, _)
GlobInDirs(nodes, dirs, basename) ==
    IF dirs = <<>> THEN <<>>
    ELSE LET d == Head(dirs)
             names == IF has_magic(basename) THEN glob1(nodes, d, basename)
                      ELSE glob0(nodes, d, basename)
         IN  [i \in 1..Len(names) |-> Join2(d, names[i])]
             \o GlobInDirs(nodes, Tail(dirs), basename)

\* glob.iglob(pathname): the sequence of pathnames it yields
RECURSIVE ShellGlob(_, _)
ShellGlob(nodes, pathname) ==
    LET dirname == PathSplit(pathname)[1]
        basename == PathSplit(pathname)[2]
    IN  IF ~has_magic(pathname)
        THEN IF basename # <<>>
             THEN IF Lexists(nodes, pathname) THEN <<pathname>> ELSE <<>>
             ELSE IF IsDir(nodes, dirname) THEN <<pathname>> ELSE <<>>
        ELSE IF dirname = <<>> THEN glob1(nodes, DOT, basename)
        ELSE GlobInDirs(nodes,
                        IF dirname # pathname /\ has_magic(dirname)
                        THEN ShellGlob(nodes, dirname) ELSE <<dirname>>,
                        basename)

----------------------------------------------------------------------------
(* The globstar matcher: iglob and its helpers *)

_GLOBSTAR == <<"*", "*">>

\* the while loop of _split_path
RECURSIVE SplitPathLoop(_, _)
SplitPathLoop(pathname, parts) ==
    LET dirname == PathSplit(pathname)[1]
        basename == PathSplit(pathname)[2]
        parts1 == Append(parts, basename)
    IN  IF pathname = dirname THEN Append(parts1, dirname)
        ELSE IF dirname = <<>> THEN parts1
        ELSE SplitPathLoop(dirname, parts1)

_split_path(pathname) == Reverse(SplitPathLoop(pathname, <<>>))

\* Variant of the loop that tests a part for an embedded "**" only when the
\* previous part was not a globstar.
RECURSIVE CanonLoopAfterStarUnchecked(_, _, _)
CanonLoopAfterStarUnchecked(parts, res, prev_was_globstar) ==
    IF parts = <<>> THEN [err |-> FALSE, res |-> res]
    ELSE LET p == Head(parts)
         IN  IF p = <<"*", "*">>
             THEN IF ~prev_was_globstar
                  THEN CanonLoopAfterStarUnchecked(Tail(parts), Append(res, p), TRUE)
                  ELSE CanonLoopAfterStarUnchecked(Tail(parts), res, prev_was_globstar)
             ELSE IF ~prev_was_globstar /\ Contains(p, <<"*", "*">>)
             THEN [err |-> TRUE, res |-> <<>>]
             ELSE CanonLoopAfterStarUnchecked(Tail(parts), Append(res, p), FALSE)

\* the for loop of _canonicalize; err: ValueError was raised
RECURSIVE CanonLoop(_, _, _)
CanonLoop(parts, res, prev_was_globstar) ==
    IF parts = <<>> THEN [err |-> FALSE, res |-> res]
    ELSE LET p == Head(parts)
         IN  IF p = _GLOBSTAR
             THEN IF ~prev_was_globstar
                  THEN CanonLoop(Tail(parts), Append(res, p), TRUE)
                  ELSE CanonLoop(Tail(parts), res, prev_was_globstar)
             ELSE IF Contains(p, _GLOBSTAR) THEN [err |-> TRUE, res |-> <<>>]
             ELSE CanonLoop(Tail(parts), Append(res, p), FALSE)

_canonicalize(parts) == CanonLoop(parts, <<>>, FALSE)

\* index of the first "**" in parts (1-based), 0 when there is none
_find_globstar(parts) ==
    IF \E i \in 1..Len(parts) : parts[i] = _GLOBSTAR
    THEN CHOOSE i \in 1..Len(parts) :
            parts[i] = _GLOBSTAR /\ \A j \in 1..(i - 1) : parts[j] # _GLOBSTAR
    ELSE 0

\* os.walk(pathname).next(): the names in pathname split into those for which
\* os.path.isdir holds and the others; ok is FALSE for None
_list_dir(nodes, pathname) ==
    LET l == ListDir(nodes, pathname)
    IN  [ok |-> l.ok,
         dirs |-> SelectSeq(l.names, LAMBDA nm : IsDir(nodes, Join2(pathname, nm))),
         files |-> SelectSeq(l.names, LAMBDA nm : ~IsDir(nodes, Join2(pathname, nm)))]

\* The steps of a generator, in the order it performs them:
\*   "list"  a call of _list_dir (kind "ok", or "none" when it returned None)
\*   "node"  a (kind, path) tuple yielded by _expand / _expand_curdir
\*   "glob"  a call of glob.iglob;  "yield"  a path yielded by iglob
\*   "raise" the ValueError of _canonicalize
Ev(op, kind, path) == [op |-> op, kind |-> kind, path |-> path]

ListEv(pathname, res) == Ev("list", IF res.ok THEN "ok" ELSE "none", pathname)

RECURSIVE _expand(_, _), ExpandEach(_, _)
_expand(nodes, pathname) ==
    LET res == _list_dir(nodes, pathname)
    IN  <<ListEv(pathname, res)>>
        \o (IF ~res.ok THEN <<>>
            ELSE (IF Basename(pathname) # <<>>
                  THEN <<Ev("node", "dir", Join2(pathname, <<>>))>> ELSE <<>>)
                 \o [i \in 1..Len(res.files) |->
                        Ev("node", "file", Join2(pathname, res.files[i]))]
                 \o ExpandEach(nodes, [i \in 1..Len(res.dirs) |->
                                          Join2(pathname, res.dirs[i])]))

\* for d in dirs: for x in _expand(path): yield x
ExpandEach(nodes, paths) ==
    IF paths = <<>> THEN <<>>
    ELSE _expand(nodes, Head(paths)) \o ExpandEach(nodes, Tail(paths))

_expand_curdir(nodes, pathname) ==
    LET res == _list_dir(nodes, pathname)
    IN  <<ListEv(pathname, res)>>
        \o (IF ~res.ok THEN <<>>
            ELSE <<Ev("node", "dir", <<>>)>>
                 \o [i \in 1..Len(res.files) |-> Ev("node", "file", res.files[i])]
                 \o ExpandEach(nodes, res.dirs))

\* iglob(globbed_pathname): the steps of the generator
RECURSIVE iglob(_, _), IglobNodes(_, _, _)
iglob(nodes, globbed_pathname) ==
    LET c == _canonicalize(_split_path(globbed_pathname))
        parts == c.res
        index == _find_globstar(parts)
        prefix_parts == SubSeq(parts, 1, index - 1)
        suffix_parts == SubSeq(parts, index + 1, Len(parts))
        prefix == IF prefix_parts # <<>> THEN JoinAll(prefix_parts) ELSE DOT
        found == ShellGlob(nodes, globbed_pathname)
    IN  IF c.err THEN <<Ev("raise", "ValueError", globbed_pathname)>>
        ELSE IF index = 0
        THEN <<Ev("glob", "iglob", globbed_pathname)>>
             \o [i \in 1..Len(found) |-> Ev("yield", "path", Normpath(found[i]))]
        ELSE IglobNodes(nodes,
                        IF index = 1 THEN _expand_curdir(nodes, prefix)
                        ELSE _expand(nodes, prefix),
                        suffix_parts)

\* for (kind, path) in expand(prefix): ...
IglobNodes(nodes, evs, suffix_parts) ==
    IF evs = <<>> THEN <<>>
    ELSE LET e == Head(evs)
             suffix == IF suffix_parts # <<>> THEN JoinAll(suffix_parts) ELSE <<>>
             here == IF e.op # "node" THEN <<e>>
                     ELSE IF suffix_parts = <<>> THEN <<Ev("yield", "path", e.path)>>
                     ELSE IF e.kind = "dir"
                     THEN <<Ev("islink", "lstat", e.path)>>
                          \o (IF ~IsLink(nodes, e.path)
                              THEN iglob(nodes, Join2(e.path, suffix)) ELSE <<>>)
                     ELSE <<>>
         IN  here \o IglobNodes(nodes, Tail(evs), suffix_parts)

----------------------------------------------------------------------------
(* Repo: the candidate files of a git repository *)

\* Paths a repository may track (lines of "git ls-files"), in output order.
TrackedUniverse == <<
    <<"s", "r", "c", "/", "a", ".", "c", "p", "p">>,
    <<"s", "r", "c", "/", "a", ".", "h">>,
    <<"s", "r", "c", "/", "b", ".", "h", "p", "p">>,
    <<"s", "r", "c", "/", "a", ".", "c">>,
    <<"l", "i", "b", "/", "a", ".", "c", "p", "p">>,
    <<"s", "r", "c", "/", "e", "x", "a", "m", "p", "l", "e", "s", "/", "a", ".", "h">>,
    <<"s", "r", "c", "/", "t", "h", "i", "r", "d", "_", "p", "a", "r", "t", "y", "/", "a", ".", "h">>,
    <<"s", "r", "c", "/", "e", "x", "a", "m", "p", "l", "e", "s", ".", "c", "p", "p">>,
    <<"x", "s", "r", "c", "/", "a", ".", "c", "p", "p">>,
    <<"s", "r", "c", "/", "a", ".", "h", ".", "i", "n">>,
    <<"s", "r", "c", "/", "c", ".", "h", " ">> >>

\* Paths a caller may pass to get_candidates.
CandidateUniverse == {
    <<"s", "r", "c", "/", "a", ".", "c", "p", "p">>,
    <<"/", "r", "/", "s", "r", "c", "/", "a", ".", "h">>,
    <<"l", "i", "b", "/", "a", ".", "c", "p", "p">>,
    <<"/", "r", "/", "s", "r", "c", "/", "e", "x", "a", "m", "p", "l", "e", "s", "/", "a", ".", "h">>,
    <<"s", "r", "c", "/", "a", ".", "c">>,
    <<"/", "q", "/", "s", "r", "c", "/", "a", ".", "c", "p", "p">>,
    <<"s", "r", "c", "/", ".", "/", "a", ".", "c", "p", "p">>,
    <<"s", "r", "c", "/", "c", ".", "h">> }

\* The root git reports for the repository.
RepoRoot == <<"/", "r">>

\* line.rstrip()
RECURSIVE RStrip(_)
RStrip(line) ==
    IF line # <<>> /\ line[Len(line)] = " "
    THEN RStrip(SubSeq(line, 1, Len(line) - 1)) ELSE line

EndsWith(str, suffix) ==
    Len(str) >= Len(suffix)
    /\ SubSeq(str, Len(str) - Len(suffix) + 1, Len(str)) = suffix

\* re.compile('\\.(h|hpp|cpp)$').search(a)
files_match(a) ==
    \/ EndsWith(a, <<".", "h">>)
    \/ EndsWith(a, <<".", "h", "p", "p">>)
    \/ EndsWith(a, <<".", "c", "p", "p">>)

\* Variant of the line filter that does not ask for "src" in the line.
InterestingLineAnyDir(line) ==
    /\ ~Contains(line, <<"e", "x", "a", "m", "p", "l", "e", "s">>)
    /\ ~Contains(line, <<"t", "h", "i", "r", "d", "_", "p", "a", "r", "t", "y">>)

\* "src" in line and not "examples" in line and not "third_party" in line
InterestingLine(line) ==
    /\ Contains(line, <<"s", "r", "c">>)
    /\ ~Contains(line, <<"e", "x", "a", "m", "p", "l", "e", "s">>)
    /\ ~Contains(line, <<"t", "h", "i", "r", "d", "_", "p", "a", "r", "t", "y">>)

\* Repo._get_candidate_files, on the lines of "git ls-files"
_get_candidate_files(lines) ==
    LET interesting == SelectSeq(lines, InterestingLine)
        file_list == [i \in 1..Len(interesting) |-> RStrip(interesting[i])]
    IN  SelectSeq(file_list, files_match)

\* os.path.isabs
IsAbs(path) == path # <<>> /\ path[1] = SEP

\* os.path.relpath(path, start), for absolute path and start
Relpath(path, start) ==
    LET nonempty(x) == x # <<>>
        start_list == SelectSeq(SplitSep(Normpath(start)), nonempty)
        path_list == SelectSeq(SplitSep(Normpath(path)), nonempty)
        common(k) == /\ k <= Len(start_list) /\ k <= Len(path_list)
                     /\ \A j \in 1..k : start_list[j] = path_list[j]
        i == CHOOSE k \in 0..Len(start_list) : common(k) /\ ~common(k + 1)
        rel_list == [j \in 1..(Len(start_list) - i) |-> DOTDOT]
                    \o SubSeq(path_list, i + 1, Len(path_list))
    IN  IF rel_list = <<>> THEN DOT ELSE JoinAll(rel_list)

\* Repo._get_local_dir
_get_local_dir(path, repo_root) ==
    IF IsAbs(path) THEN Relpath(path, repo_root) ELSE path

\* Repo.get_candidates; the intersection is listed in inventory order
get_candidates(cands, lines, repo_root) ==
    LET inventory == _get_candidate_files(lines)
        local == { _get_local_dir(cands[2][i], repo_root) : i \in 1..Len(cands[2]) }
        chosen == IF cands[1] # "None" /\ Len(cands[2]) > 0
                  THEN SelectSeq(inventory, LAMBDA f : f \in local)
                  ELSE inventory
    IN  [i \in 1..Len(chosen) |-> Normpath(Join2(repo_root, chosen[i]))]

InitRepo ==
    /\ \E T \in SUBSET (1..Len(TrackedUniverse)) :
          /\ Cardinality(T) <= MaxTracked
          /\ ls_files = SelectSeq(TrackedUniverse,
                                  LAMBDA u : \E k \in T : TrackedUniverse[k] = u)
    /\ candidates \in
          {<<"None", <<>>>>}
          \cup { <<"list", l>> :
                    l \in UNION { [1..n -> CandidateUniverse] : n \in 0..MaxCands } }
    /\ rpc = "new"
    /\ root = <<>>
    /\ candidate_files = <<>>
    /\ valid_files = <<>>
    /\ PPIdle
    /\ GlobIdle

\* Repo.__init__
RepoInit ==
    /\ rpc = "new"
    /\ candidate_files' = _get_candidate_files(ls_files)
    /\ root' = RepoRoot
    /\ rpc' = "constructed"
    /\ UNCHANGED <<ls_files, candidates, valid_files, ppvars, gvars>>

\* Repo.get_candidates(candidates)
GetCandidates ==
    /\ rpc = "constructed"
    /\ valid_files' = get_candidates(candidates, ls_files, root)
    /\ rpc' = "returned"
    /\ UNCHANGED <<ls_files, candidates, root, candidate_files, ppvars, gvars>>

NextRepo ==
    \/ RepoInit
    \/ GetCandidates

SpecRepo == InitRepo /\ [][NextRepo]_vars

----------------------------------------------------------------------------
(* One iglob generator, advanced step by step by its consumer *)

\* Path segments the patterns are built from.
Segs == { <<"a">>, <<"b">>, <<"*">>, <<"*", "*">>, <<"b", "*", "*">>,
          <<"*", "*", "x">> }

\* [/]seg/.../seg[/] with up to MaxSegs segments
Patterns ==
    { lead \o JoinSep(ss) \o trail :
        lead \in {<<>>, <<SEP>>}, trail \in {<<>>, <<SEP>>},
        ss \in UNION { [1..n -> Segs] : n \in 1..MaxSegs } }

InitGlob ==
    /\ tree \in DOMAIN Trees
    /\ pattern \in Patterns
    /\ gpc = "created"
    /\ pending = iglob(Trees[tree], pattern)
    /\ fsops = <<>>
    /\ yielded = <<>>
    /\ PPIdle
    /\ RepoIdle

Active == gpc \in {"created", "running"}

\* parts = _canonicalize(parts) raises ValueError out of the generator
GRaise ==
    /\ Active /\ pending # <<>> /\ Head(pending).op = "raise"
    /\ gpc' = "raised"
    /\ pending' = <<>>
    /\ UNCHANGED <<tree, pattern, fsops, yielded, ppvars, rvars>>

\* res = _list_dir(pathname)
GListDir ==
    /\ Active /\ pending # <<>> /\ Head(pending).op = "list"
    /\ fsops' = Append(fsops, Head(pending))
    /\ pending' = Tail(pending)
    /\ gpc' = "running"
    /\ UNCHANGED <<tree, pattern, yielded, ppvars, rvars>>

\* ... and not os.path.islink(path)
GIsLink ==
    /\ Active /\ pending # <<>> /\ Head(pending).op = "islink"
    /\ fsops' = Append(fsops, Head(pending))
    /\ pending' = Tail(pending)
    /\ gpc' = "running"
    /\ UNCHANGED <<tree, pattern, yielded, ppvars, rvars>>

\* for pathname in _glob.iglob(globbed_pathname):
GShellGlob ==
    /\ Active /\ pending # <<>> /\ Head(pending).op = "glob"
    /\ fsops' = Append(fsops, Head(pending))
    /\ pending' = Tail(pending)
    /\ gpc' = "running"
    /\ UNCHANGED <<tree, pattern, yielded, ppvars, rvars>>

\* yield os.path.normpath(pathname) / yield path / yield pathname
GYield ==
    /\ Active /\ pending # <<>> /\ Head(pending).op = "yield"
    /\ yielded' = Append(yielded, Head(pending).path)
    /\ pending' = Tail(pending)
    /\ gpc' = "running"
    /\ UNCHANGED <<tree, pattern, fsops, ppvars, rvars>>

\* the generator returns (StopIteration)
GStop ==
    /\ Active /\ pending = <<>>
    /\ gpc' = "done"
    /\ UNCHANGED <<tree, pattern, pending, fsops, yielded, ppvars, rvars>>

NextGlob ==
    \/ GRaise
    \/ GListDir
    \/ GIsLink
    \/ GShellGlob
    \/ GYield
    \/ GStop

SpecGlob == InitGlob /\ [][NextGlob]_vars

----------------------------------------------------------------------------
(* parallel_process *)

\* What one invocation of func can do: return True, return False, raise.
Outcomes == {"T", "F", "X"}

Workers == 1..cpus

InitPP ==
    /\ items \in UNION {[1..n -> Outcomes] : n \in 0..MaxItems}
    /\ cpus \in 1..MaxCpus
    /\ task_queue = <<>>
    /\ unfinished = 0
    /\ pp_event = FALSE
    /\ pp_result = TRUE
    /\ pp_lock = 0
    /\ threads = 0
    /\ wpc = [w \in 1..cpus |-> "unstarted"]
    /\ witem = [w \in 1..cpus |-> 0]
    /\ wret = [w \in 1..cpus |-> "none"]
    /\ mpc = "enqueue"
    /\ nput = 0
    /\ njoined = 0
    /\ retval = "none"
    /\ calls = [i \in 1..Len(items) |-> 0]
    /\ rets = [i \in 1..Len(items) |-> <<>>]
    /\ GlobIdle
    /\ RepoIdle

\* for item in items: task_queue.put(item)
Enqueue ==
    /\ mpc = "enqueue"
    /\ IF nput < Len(items)
       THEN /\ task_queue' = Append(task_queue, nput + 1)
            /\ unfinished' = unfinished + 1
            /\ nput' = nput + 1
            /\ mpc' = mpc
       ELSE /\ mpc' = "spawn"
            /\ UNCHANGED <<task_queue, unfinished, nput>>
    /\ UNCHANGED <<gvars, rvars, items, cpus, pp_event, pp_result, pp_lock, threads, wpc,
                   witem, wret, njoined, retval, calls, rets>>

\* for cpu in range(cpus): thread = Thread(target=worker); thread.start()
StartThread ==
    /\ mpc = "spawn"
    /\ IF threads < cpus
       THEN /\ threads' = threads + 1
            /\ wpc' = [wpc EXCEPT ![threads + 1] = "loop"]
            /\ mpc' = mpc
       ELSE /\ mpc' = "wait"
            /\ UNCHANGED <<threads, wpc>>
    /\ UNCHANGED <<gvars, rvars, items, cpus, task_queue, unfinished, pp_event, pp_result,
                   pp_lock, witem, wret, nput, njoined, retval, calls, rets>>

\* while not pp_event.wait(1) and not pp_event.is_set(): time.sleep(1)
WaitEvent ==
    /\ mpc = "wait"
    /\ pp_event
    /\ mpc' = "join"
    /\ UNCHANGED <<gvars, rvars, items, cpus, task_queue, unfinished, pp_event, pp_result,
                   pp_lock, threads, wpc, witem, wret, nput, njoined, retval,
                   calls, rets>>

\* A thread has terminated: worker() returned, or an exception left it.
Terminated(w) == wpc[w] \in {"exited", "dead"}

\* KeyboardInterrupt reaches the calling thread in the wait loop (lines
\* 537-538, no handler up to main()): the exception leaves parallel_process,
\* no thread is joined and nothing is returned.
Interrupt ==
    /\ mpc = "wait"
    /\ mpc' = "interrupted"
    /\ UNCHANGED <<gvars, rvars, items, cpus, task_queue, unfinished, pp_event,
                   pp_result, pp_lock, threads, wpc, witem, wret, nput, njoined,
                   retval, calls, rets>>

\* Variant in which the end of the main thread leaves the workers alone
\* (thread.daemon not set).
ProcessExitKeepsThreads ==
    /\ mpc = "interrupted"
    /\ mpc' = "exited"
    /\ UNCHANGED <<gvars, rvars, items, cpus, task_queue, unfinished, pp_event,
                   pp_result, pp_lock, threads, wpc, witem, wret, nput, njoined,
                   retval, calls, rets>>

\* The uncaught exception ends the main thread and the interpreter exits:
\* the workers are daemon threads (thread.daemon = True), so each one that has
\* not terminated is stopped wherever it is.
ProcessExit ==
    /\ mpc = "interrupted"
    /\ mpc' = "exited"
    /\ wpc' = [w \in 1..cpus |->
                IF wpc[w] \in {"exited", "dead"} THEN wpc[w] ELSE "killed"]
    /\ pp_lock' = 0
    /\ UNCHANGED <<gvars, rvars, items, cpus, task_queue, unfinished, pp_event,
                   pp_result, threads, witem, wret, nput, njoined, retval,
                   calls, rets>>

\* Variant in which only the last thread started is joined.
JoinThreadLastOnly ==
    /\ mpc = "join"
    /\ Terminated(cpus)
    /\ njoined' = cpus
    /\ mpc' = "return"
    /\ UNCHANGED <<gvars, rvars, items, cpus, task_queue, unfinished, pp_event,
                   pp_result, pp_lock, threads, wpc, witem, wret, nput, retval,
                   calls, rets>>

\* Variant in which join() does not wait for the thread to terminate.
JoinThreadNoWait ==
    /\ mpc = "join"
    /\ IF njoined < cpus
       THEN /\ njoined' = njoined + 1
            /\ mpc' = mpc
       ELSE /\ mpc' = "return"
            /\ UNCHANGED njoined
    /\ UNCHANGED <<gvars, rvars, items, cpus, task_queue, unfinished, pp_event,
                   pp_result, pp_lock, threads, wpc, witem, wret, nput, retval,
                   calls, rets>>

\* for thread in threads: thread.join()
JoinThread ==
    /\ mpc = "join"
    /\ IF njoined < cpus
       THEN /\ Terminated(njoined + 1)
            /\ njoined' = njoined + 1
            /\ mpc' = mpc
       ELSE /\ mpc' = "return"
            /\ UNCHANGED njoined
    /\ UNCHANGED <<gvars, rvars, items, cpus, task_queue, unfinished, pp_event, pp_result,
                   pp_lock, threads, wpc, witem, wret, nput, retval, calls, rets>>

\* return pp_result[0]
Return ==
    /\ mpc = "return"
    /\ retval' = pp_result
    /\ mpc' = "returned"
    /\ UNCHANGED <<gvars, rvars, items, cpus, task_queue, unfinished, pp_event, pp_result,
                   pp_lock, threads, wpc, witem, wret, nput, njoined, calls, rets>>

\* while not pp_event.is_set():
WLoop(w) ==
    /\ wpc[w] = "loop"
    /\ wpc' = [wpc EXCEPT ![w] = IF pp_event THEN "exited" ELSE "get"]
    /\ UNCHANGED <<gvars, rvars, items, cpus, task_queue, unfinished, pp_event, pp_result,
                   pp_lock, threads, witem, wret, mpc, nput, njoined, retval,
                   calls, rets>>

\* item = task_queue.get_nowait()   (raises Queue.Empty on an empty queue)
WGet(w) ==
    /\ wpc[w] = "get"
    /\ IF task_queue = <<>>
       THEN /\ wpc' = [wpc EXCEPT ![w] = "empty"]
            /\ UNCHANGED <<task_queue, witem>>
       ELSE /\ witem' = [witem EXCEPT ![w] = Head(task_queue)]
            /\ task_queue' = Tail(task_queue)
            /\ wpc' = [wpc EXCEPT ![w] = "call"]
    /\ UNCHANGED <<gvars, rvars, items, cpus, unfinished, pp_event, pp_result, pp_lock,
                   threads, wret, mpc, nput, njoined, retval, calls, rets>>

\* except Queue.Empty: pp_event.set(); return
WEmpty(w) ==
    /\ wpc[w] = "empty"
    /\ pp_event' = TRUE
    /\ wpc' = [wpc EXCEPT ![w] = "exited"]
    /\ UNCHANGED <<gvars, rvars, items, cpus, task_queue, unfinished, pp_result, pp_lock,
                   threads, witem, wret, mpc, nput, njoined, retval, calls, rets>>

\* ret = func(item): the invocation begins
WCall(w) ==
    /\ wpc[w] = "call"
    /\ calls' = [calls EXCEPT ![witem[w]] = @ + 1]
    /\ wpc' = [wpc EXCEPT ![w] = "running"]
    /\ UNCHANGED <<gvars, rvars, items, cpus, task_queue, unfinished, pp_event, pp_result,
                   pp_lock, threads, witem, wret, mpc, nput, njoined, retval, rets>>

\* ret = func(item): the invocation ends, by returning or by raising
WFuncEnd(w) ==
    /\ wpc[w] = "running"
    /\ rets' = [rets EXCEPT ![witem[w]] = Append(@, items[witem[w]])]
    /\ wret' = [wret EXCEPT ![w] = items[witem[w]]]
    /\ wpc' = [wpc EXCEPT ![w] = "finally"]
    /\ UNCHANGED <<gvars, rvars, items, cpus, task_queue, unfinished, pp_event, pp_result,
                   pp_lock, threads, witem, mpc, nput, njoined, retval, calls>>

\* finally: task_queue.task_done(); a raised exception then leaves worker()
WTaskDone(w) ==
    /\ wpc[w] = "finally"
    /\ unfinished' = unfinished - 1
    /\ wpc' = [wpc EXCEPT ![w] = IF wret[w] = "X" THEN "dead" ELSE "test"]
    /\ UNCHANGED <<gvars, rvars, items, cpus, task_queue, pp_event, pp_result, pp_lock,
                   threads, witem, wret, mpc, nput, njoined, retval, calls, rets>>

\* Variant in which pp_event.set(); return follow every item, not only a
\* failing one.
WTestStopsAfterAnyItem(w) ==
    /\ wpc[w] = "test"
    /\ wpc' = [wpc EXCEPT ![w] = IF wret[w] = "F" THEN "acquire" ELSE "set"]
    /\ UNCHANGED <<gvars, rvars, items, cpus, task_queue, unfinished, pp_event,
                   pp_result, pp_lock, threads, witem, wret, mpc, nput, njoined,
                   retval, calls, rets>>

\* if not ret:
WTest(w) ==
    /\ wpc[w] = "test"
    /\ wpc' = [wpc EXCEPT ![w] = IF wret[w] = "F" THEN "acquire" ELSE "loop"]
    /\ UNCHANGED <<gvars, rvars, items, cpus, task_queue, unfinished, pp_event, pp_result,
                   pp_lock, threads, witem, wret, mpc, nput, njoined, retval,
                   calls, rets>>

\* with pp_lock:   (acquire)
WAcquire(w) ==
    /\ wpc[w] = "acquire"
    /\ pp_lock = 0
    /\ pp_lock' = w
    /\ wpc' = [wpc EXCEPT ![w] = "write"]
    /\ UNCHANGED <<gvars, rvars, items, cpus, task_queue, unfinished, pp_event, pp_result,
                   threads, witem, wret, mpc, nput, njoined, retval, calls, rets>>

\* pp_result[0] = False   (and the lock is released on leaving the with block)
WWrite(w) ==
    /\ wpc[w] = "write"
    /\ pp_result' = FALSE
    /\ pp_lock' = 0
    /\ wpc' = [wpc EXCEPT ![w] = "set"]
    /\ UNCHANGED <<gvars, rvars, items, cpus, task_queue, unfinished, pp_event, threads,
                   witem, wret, mpc, nput, njoined, retval, calls, rets>>

\* pp_event.set(); return
WSet(w) ==
    /\ wpc[w] = "set"
    /\ pp_event' = TRUE
    /\ wpc' = [wpc EXCEPT ![w] = "exited"]
    /\ UNCHANGED <<gvars, rvars, items, cpus, task_queue, unfinished, pp_result, pp_lock,
                   threads, witem, wret, mpc, nput, njoined, retval, calls, rets>>

worker(w) ==
    \/ WLoop(w) \/ WGet(w) \/ WEmpty(w) \/ WCall(w) \/ WFuncEnd(w)
    \/ WTaskDone(w) \/ WTest(w) \/ WAcquire(w) \/ WWrite(w) \/ WSet(w)

NextPP ==
    \/ Enqueue
    \/ StartThread
    \/ WaitEvent
    \/ JoinThread
    \/ Return
    \/ Interrupt
    \/ ProcessExit
    \/ \E w \in Workers : worker(w)

SpecPP == InitPP /\ [][NextPP]_vars

\* The steps of the calling thread that need nothing from outside.
MainStep == Enqueue \/ StartThread \/ WaitEvent \/ JoinThread \/ Return

\* Every thread that can take a step eventually takes one; an external
\* interrupt may never come.
FairSpecPP ==
    /\ SpecPP
    /\ WF_vars(MainStep)
    /\ \A w \in 1..MaxCpus : WF_vars(w \in Workers /\ worker(w))

----------------------------------------------------------------------------
(* Properties of parallel_process *)

Returned == mpc = "returned"

AllTrue == \A i \in 1..Len(items) : items[i] = "T"
NoneRaises == \A i \in 1..Len(items) : items[i] # "X"
SomeFalse == \E i \in 1..Len(items) : items[i] = "F"

\* Every invocation of func completed so far returned True.
EveryInvocationTrue ==
    \A i \in 1..Len(items) : \A k \in 1..Len(rets[i]) : rets[i][k] = "T"

\* C1: parallel_process returns True if and only if every invocation of func
\* made during the call returned True.
ReturnsTrueIffAllInvocationsTrue ==
    Returned => ((retval = TRUE) <=> EveryInvocationTrue)

\* C2: when func returns True on every item, no item is ever handed to two
\* workers, and at return the value is True and func has been invoked exactly
\* once on each enqueued item.
AllTrueProcessedExactlyOnce ==
    AllTrue =>
        /\ \A i \in 1..Len(items) : calls[i] <= 1
        /\ Returned =>
            /\ retval = TRUE
            /\ \A i \in 1..Len(items) : calls[i] = 1 /\ rets[i] = <<"T">>

\* Reached: a run over several all-True items with more workers than one has
\* returned, after a worker found the queue empty and set the event.
AllTrueWitness ==
    /\ Returned /\ AllTrue /\ Len(items) >= 2 /\ cpus >= 2
    /\ \A i \in 1..Len(items) : calls[i] = 1

\* C3: with func never raising, a pool of more than one worker and at least
\* one item on which func returns False, parallel_process returns False.
AnyFalseReturnsFalse ==
    (Returned /\ NoneRaises /\ SomeFalse /\ cpus > 1) => retval = FALSE

\* Reached: a mixed True/False run with two workers returned False after the
\* stop event cut the run short (an item was left in the queue).
AnyFalseWitness ==
    /\ Returned /\ NoneRaises /\ SomeFalse /\ cpus > 1
    /\ \E i \in 1..Len(items) : items[i] = "T"
    /\ task_queue # <<>>
    /\ retval = FALSE

\* C10: the stop flag is never cleared, and once it is set no worker removes
\* a further item from the queue.
StopFlagEndsDequeues ==
    [][pp_event => (pp_event' /\ task_queue' = task_queue)]_vars

----------------------------------------------------------------------------
(* Properties of iglob *)

Range(f) == {f[i] : i \in DOMAIN f}

\* Some "/"-separated segment of the pattern holds "**" together with other
\* characters.
MixedGlobstar(p) ==
    \E i \in 1..Len(SplitSep(p)) :
        LET seg == SplitSep(p)[i]
        IN  Contains(seg, <<"*", "*">>) /\ seg # <<"*", "*">>

\* C4: a pattern with a segment that mixes "**" with other characters is
\* rejected: the generator raises, and it neither touches the filesystem nor
\* yields a path before doing so.
MixedGlobstarRejectedFirst ==
    MixedGlobstar(pattern) =>
        /\ fsops = <<>>
        /\ yielded = <<>>
        /\ gpc \in {"created", "raised"}

\* Reached: the generator raised on a pattern whose offending segment comes
\* after a valid whole-segment "**".
MixedAfterGlobstarRaised ==
    /\ gpc = "raised"
    /\ \E i, j \in 1..Len(SplitSep(pattern)) :
          /\ i < j
          /\ SplitSep(pattern)[i] = <<"*", "*">>
          /\ Contains(SplitSep(pattern)[j], <<"*", "*">>)
          /\ SplitSep(pattern)[j] # <<"*", "*">>

\* The pattern is <prefix>/**/b for a literal prefix naming a directory
\* (the prefix of "/**/b" is the root).
StarB == <<SEP, "*", "*", SEP, "b">>
PrefixOf(p) == IF p = StarB THEN <<SEP>> ELSE SubSeq(p, 1, Len(p) - Len(StarB))
IsPrefixStarB(p) ==
    /\ Len(p) >= Len(StarB)
    /\ SubSeq(p, Len(p) - Len(StarB) + 1, Len(p)) = StarB
    /\ ~has_magic(PrefixOf(p))
    /\ IsDir(Trees[tree], PrefixOf(p))

\* The directories at or below directory d (no symbolic link on the way)
\* that have an entry b.
DirsWithB(nodes, d) ==
    { c \in DOMAIN nodes :
        /\ Len(c) >= Len(d) /\ SubSeq(c, 1, Len(d)) = d
        /\ \A k \in Len(d)..Len(c) : nodes[SubSeq(c, 1, k)].kind = "dir"
        /\ Append(c, <<"b">>) \in DOMAIN nodes }

\* C5: for a pattern a/**/b whose prefix a names an existing directory, the
\* yielded paths include a/b and a/x/b, a/x/y/b for the directories x, y under
\* a in which b exists, a/b being produced first.
GlobstarMatchesEveryLevel ==
    (gpc = "done" /\ IsPrefixStarB(pattern)) =>
        LET nodes == Trees[tree]
            d == Resolve(nodes, PrefixOf(pattern), TRUE).at
            want(c) == JoinAll(<<PrefixOf(pattern)>>
                               \o SubSeq(c, Len(d) + 1, Len(c)) \o << <<"b">> >>)
        IN  /\ \A c \in DirsWithB(nodes, d) : want(c) \in Range(yielded)
            /\ d \in DirsWithB(nodes, d) => yielded[1] = want(d)

\* C6: while a recursive wildcard is expanded, no directory reached through a
\* symbolic link has its contents listed.
NoListingThroughSymlink ==
    \A i \in 1..Len(fsops) :
        (fsops[i].op = "list" /\ fsops[i].kind = "ok")
            => Resolve(Trees[tree], fsops[i].path, TRUE).n = 0

\* C7: every path yielded by iglob is in normalized form.
YieldedPathsNormalized ==
    \A i \in 1..Len(yielded) :
        /\ yielded[i] = Normpath(yielded[i])
        /\ yielded[i] # <<>>
        /\ (Len(yielded[i]) > 1 => yielded[i][Len(yielded[i])] # SEP)

\* C8: one iglob call never yields the same path twice.
NoDuplicateYields ==
    \A i, j \in 1..Len(yielded) : i # j => yielded[i] # yielded[j]

----------------------------------------------------------------------------
(* Properties of Repo.get_candidates *)

\* The file lies under a directory segment named seg.
UnderSegment(f, seg) ==
    \E k \in 1..(Len(SplitSep(f)) - 1) : SplitSep(f)[k] = seg

HasAllowedExtension(f) ==
    \E ext \in {<<".", "h">>, <<".", "h", "p", "p">>, <<".", "c", "p", "p">>} :
        Len(f) >= Len(ext) /\ SubSeq(f, Len(f) - Len(ext) + 1, Len(f)) = ext

\* The candidate list is absent or empty, or holds f (absolute entries taken
\* relative to the root).
InCandidateList(f) ==
    \/ candidates[1] = "None"
    \/ candidates[2] = <<>>
    \/ \E i \in 1..Len(candidates[2]) :
          f = (IF candidates[2][i][1] = SEP
               THEN Relpath(candidates[2][i], RepoRoot) ELSE candidates[2][i])

AbsoluteUnderRoot(f) == Normpath(Join2(RepoRoot, f))

\* C9 as stated: get_candidates returns exactly the tracked files with an
\* allowed extension that lie under no examples or third-party segment and
\* are in the candidate list when a non-empty one is given.
CandidatesExactlyExtensionAndSegments ==
    rpc = "returned" =>
        Range(valid_files) =
            { AbsoluteUnderRoot(f) : f \in
                { g \in Range(ls_files) :
                    /\ HasAllowedExtension(g)
                    /\ ~UnderSegment(g, <<"e", "x", "a", "m", "p", "l", "e", "s">>)
                    /\ ~UnderSegment(g, <<"t", "h", "i", "r", "d", "_", "p", "a", "r", "t", "y">>)
                    /\ InCandidateList(g) } }

\* C9 amended: get_candidates returns exactly the tracked lines that contain
\* "src" and contain neither "examples" nor "third_party" anywhere, and that,
\* stripped of trailing blanks, end in an allowed extension and are in the
\* candidate list when a non-empty one is given.
CandidatesExactlySrcSubstringFilter ==
    rpc = "returned" =>
        Range(valid_files) =
            { AbsoluteUnderRoot(RStrip(f)) : f \in
                { g \in Range(ls_files) :
                    /\ \E i \in 1..(Len(g) - 2) : SubSeq(g, i, i + 2) = <<"s", "r", "c">>
                    /\ ~\E i \in 1..(Len(g) - 7) : SubSeq(g, i, i + 7) = <<"e", "x", "a", "m", "p", "l", "e", "s">>
                    /\ ~\E i \in 1..(Len(g) - 10) : SubSeq(g, i, i + 10) = <<"t", "h", "i", "r", "d", "_", "p", "a", "r", "t", "y">>
                    /\ HasAllowedExtension(RStrip(g))
                    /\ InCandidateList(RStrip(g)) } }

\* Reached: get_candidates returned a file for a non-empty candidate list
\* while a tracked .cpp file outside any "src" path was held back.
SrcFilterWitness ==
    /\ rpc = "returned"
    /\ candidates[1] = "list" /\ candidates[2] # <<>>
    /\ valid_files # <<>>
    /\ <<"l", "i", "b", "/", "a", ".", "c", "p", "p">> \in Range(ls_files)
    /\ <<"l", "i", "b", "/", "a", ".", "c", "p", "p">> \in Range(candidates[2])

----------------------------------------------------------------------------
(* Properties of parallel_process: joining, termination, interruption *)

\* An invocation of func by worker w has begun and not ended.
InvocationInProgress(w) ==
    /\ witem[w] # 0
    /\ calls[witem[w]] > Len(rets[witem[w]])

\* C11: the aggregate result is read and returned only after every worker
\* thread has terminated: from the read on no invocation is in progress, every
\* invocation begun has ended, and the shared result still equals the value
\* read (it was not written afterwards).
ResultReadAfterAllWorkersExit ==
    mpc \in {"return", "returned"} =>
        /\ \A w \in Workers : Terminated(w) /\ ~InvocationInProgress(w)
        /\ \A i \in 1..Len(items) : calls[i] = Len(rets[i])
        /\ Returned => retval = pp_result

\* Reached: the call returned False although, besides the failing item, an
\* item returning True was dispatched to another worker and ran to its end.
FailureDidNotCutShortWitness ==
    /\ Returned /\ retval = FALSE /\ cpus >= 2
    /\ \E w1, w2 \in Workers :
          /\ w1 # w2
          /\ witem[w1] # 0 /\ items[witem[w1]] = "F"
          /\ witem[w2] # 0 /\ items[witem[w2]] = "T"
          /\ rets[witem[w2]] = <<"T">>

\* The call is over for its caller: a value was returned or an exception left.
CallOver == mpc \in {"returned", "interrupted", "exited"}

\* C12: under fair scheduling parallel_process eventually returns or
\* propagates, func returning or raising on each item: the calling thread is
\* never left waiting on the stop event after all workers have gone.
EventuallyReturns == <>CallOver

====
